---- MODULE Spec2Model ----
(***************************************************************************)
(* The calendar platform of the min_renovasjon integration: the entity     *)
(* MinRenovasjonCalendarEntity of custom_components/min_renovasjon and of  *)
(* custom_components/min_renovasjon_test.  The two packages hold the same  *)
(* entity in two revisions; the variable `variant` says which one runs.    *)
(*                                                                         *)
(* Time is counted in hours.  An aware datetime carries the UTC instant,   *)
(* a naive datetime carries the wall-clock reading it was built from.      *)
(***************************************************************************)
EXTENDS Integers, Sequences, FiniteSets, Bags

\* ------------------------------------------------------------- bounds

\* Pickup dates fall on the days 1..MaxDay; the clock runs from day 0 to day
\* MaxDay.
MaxDay == 2
\* Longest pickup list handed to one _fetch_events in SpecFetch.
MaxLen == 2
\* Calls of async_update / async_get_events that may be in flight at once.
MaxCalls == 2

\* timedelta(days=1), in hours.
HoursPerDay == 24

Variants == {"min_renovasjon", "min_renovasjon_test"}

FractionNames == {"Plastic", "Paper"}

\* ------------------------------------------- host clock and time zone

\* The local zone of the host: UTC+1 until the daylight-saving switch at
\* 02:00 local time on day DstDay, UTC+2 after it.
DstDay == MaxDay

UtcOffsetAtWall(w) == IF w < DstDay * HoursPerDay + 2 THEN 1 ELSE 2

UtcOffsetAtUtc(t) == IF t < DstDay * HoursPerDay + 1 THEN 1 ELSE 2

Naive(w) == [tz |-> "naive", t |-> w]

Aware(zone, t) == [tz |-> zone, t |-> t]

\* The wall-clock reading of a datetime in its own zone.
WallClock(dt) ==
    CASE dt.tz = "naive" -> dt.t
      [] dt.tz = "utc" -> dt.t
      [] OTHER -> dt.t + UtcOffsetAtUtc(dt.t)

\* datetime.date()
date(dt) == WallClock(dt) \div HoursPerDay

\* datetime.now(): the naive local wall clock at UTC instant `t`.
datetime_now(t) == Naive(t + UtcOffsetAtUtc(t))

\* homeassistant.util.dt.as_utc: a naive datetime is taken as local time.
as_utc(dt) ==
    IF dt.tz = "naive"
    THEN Aware("utc", dt.t - UtcOffsetAtWall(dt.t))
    ELSE Aware("utc", dt.t)

\* homeassistant.util.dt.start_of_local_day: midnight, in the local zone, of
\* the date the argument shows.
start_of_local_day(dt) ==
    Aware("local", date(dt) * HoursPerDay - UtcOffsetAtWall(date(dt) * HoursPerDay))

\* dt + timedelta(days=1): wall-clock arithmetic in the datetime's own zone.
plus_one_day(dt) ==
    CASE dt.tz = "naive" -> Naive(dt.t + HoursPerDay)
      [] dt.tz = "utc" -> Aware("utc", dt.t + HoursPerDay)
      [] OTHER ->
           LET w == WallClock(dt) + HoursPerDay
           IN  Aware("local", w - UtcOffsetAtWall(w))

\* dt.replace(hour=0, minute=0, second=0, microsecond=0) of a naive datetime.
replace_midnight(dt) == [dt EXCEPT !.t = date(dt) * HoursPerDay]

\* The UTC instant of local midnight of day d.
LocalMidnight(d) == d * HoursPerDay - UtcOffsetAtWall(d * HoursPerDay)

\* ------------------------------------------------ upstream pickup data

\* A date field of a pickup entry: None, a naive datetime, or a value of the
\* wrong type (a string, say), which is truthy and has no .date().
NoDate == [kind |-> "none", dt |-> Naive(0)]

BadDate == [kind |-> "bad_type", dt |-> Naive(0)]

PickupAt(d, h) == [kind |-> "datetime", dt |-> Naive(d * HoursPerDay + h)]

\* The hour of day upstream datetimes carry.
PickupHours == {7}

DateFields ==
    {NoDate, BadDate} \cup {PickupAt(d, h) : d \in 1..MaxDay, h \in PickupHours}

\* A pickup entry: None, a tuple of the wrong length, or the 5-tuple
\* (fraction_id, fraction_name, _, pickup_date, next_pickup_date).
NullEntry ==
    [kind |-> "null", fraction_name |-> "", pickup_date |-> NoDate,
     next_pickup_date |-> NoDate]

BadArityEntry ==
    [kind |-> "bad_arity", fraction_name |-> "", pickup_date |-> NoDate,
     next_pickup_date |-> NoDate]

Entry(name, d1, d2) ==
    [kind |-> "tuple", fraction_name |-> name, pickup_date |-> d1,
     next_pickup_date |-> d2]

PickupEntries ==
    {NullEntry, BadArityEntry}
        \cup {Entry(n, d1, d2) : n \in FractionNames, d1 \in DateFields, d2 \in DateFields}

\* What get_calendar_list() gives: an exception, None, or a list of entries.
UpstreamException == [kind |-> "exception", entries |-> <<>>]

UpstreamNone == [kind |-> "none", entries |-> <<>>]

UpstreamList(entries) == [kind |-> "list", entries |-> entries]

\* ------------------------------------------------------ event builder

CalendarEvent(name, event_start, event_end) ==
    [summary |-> <<name, " tømming">>, start |-> event_start, end |-> event_end,
     description |-> <<"Tømming av ", name>>]

\* The start and end of the event of one pickup date.
EventBounds(v, pickup_date) ==
    IF v = "min_renovasjon_test"
    THEN [start |-> as_utc(start_of_local_day(pickup_date)),
          end |-> as_utc(start_of_local_day(plus_one_day(pickup_date)))]
    ELSE [start |-> replace_midnight(pickup_date),
          end |-> plus_one_day(replace_midnight(pickup_date))]

\* `if pickup_date and pickup_date.date() >= datetime.now().date(): append`
\* for one date field: the error raised, if any, and the events appended.
FieldEvents(v, name, field, t) ==
    CASE field.kind = "none" -> [error |-> "none", events |-> <<>>]
      [] field.kind = "bad_type" -> [error |-> "AttributeError", events |-> <<>>]
      [] OTHER ->
           IF date(field.dt) >= date(datetime_now(t))
           THEN [error |-> "none",
                 events |-> <<CalendarEvent(name, EventBounds(v, field.dt).start,
                                            EventBounds(v, field.dt).end)>>]
           ELSE [error |-> "none", events |-> <<>>]

\* The body of the for loop below the None check: unpack the entry (None
\* and a tuple of the wrong length do not unpack), then the two date fields
\* in turn; the first error ends it.
ProcessEntry(v, entry, t) ==
    IF entry.kind = "null"
    THEN [error |-> "TypeError", events |-> <<>>]
    ELSE IF entry.kind = "bad_arity"
    THEN [error |-> "ValueError", events |-> <<>>]
    ELSE LET first == FieldEvents(v, entry.fraction_name, entry.pickup_date, t)
             second == FieldEvents(v, entry.fraction_name, entry.next_pickup_date, t)
         IN  IF first.error # "none"
             THEN first
             ELSE [error |-> second.error, events |-> first.events \o second.events]

\* `except (ValueError, TypeError, IndexError)` around the loop body, present
\* in min_renovasjon_test only.
EntryErrorCaught(v, error) ==
    v = "min_renovasjon_test" /\ error \in {"ValueError", "TypeError", "IndexError"}

\* IsNone without the None check: every entry goes on to be unpacked.
IsNoneUnchecked(entry) == FALSE

\* `if entry is None: continue`
IsNone(entry) == entry.kind = "null"

\* The for loop over calendar_list from entry i on, `events` built so far.
RECURSIVE ForEachEntry(_, _, _, _, _)
ForEachEntry(v, entries, i, events, t) ==
    IF i > Len(entries)
    THEN [error |-> "none", events |-> events]
    ELSE IF IsNone(entries[i])
    THEN ForEachEntry(v, entries, i + 1, events, t)
    ELSE LET r == ProcessEntry(v, entries[i], t)
         IN  IF r.error = "none"
             THEN ForEachEntry(v, entries, i + 1, events \o r.events, t)
             ELSE IF EntryErrorCaught(v, r.error)
             THEN ForEachEntry(v, entries, i + 1, events \o r.events, t)
             ELSE [error |-> r.error, events |-> events \o r.events]

\* events.sort(key=lambda x: x.start): a stable sort.
RECURSIVE InsertByStart(_, _)
InsertByStart(sorted, e) ==
    IF sorted = <<>>
    THEN <<e>>
    ELSE IF sorted[Len(sorted)].start.t <= e.start.t
    THEN Append(sorted, e)
    ELSE Append(InsertByStart(SubSeq(sorted, 1, Len(sorted) - 1), e), sorted[Len(sorted)])

\* SortByStart with the sort left out: the events in the order they were built.
SortByStartOmitted(events) == events

RECURSIVE SortByStart(_)
SortByStart(events) ==
    IF events = <<>>
    THEN <<>>
    ELSE InsertByStart(SortByStart(SubSeq(events, 1, Len(events) - 1)),
                       events[Len(events)])

\* _fetch_events resumed with the upstream's answer at instant t: whether it
\* raises, and the list it returns.
_fetch_events(v, response, t) ==
    LET built ==
            IF response.kind = "list"
            THEN ForEachEntry(v, response.entries, 1, <<>>, t)
            ELSE [error |-> "none", events |-> <<>>]
        failed == response.kind = "exception" \/ built.error # "none"
    IN  IF failed
        THEN [raised |-> v # "min_renovasjon_test", events |-> <<>>]
        ELSE [raised |-> FALSE, events |-> SortByStart(built.events)]

\* ------------------------------------------------------- range filter

\* InRange without its third test: an event around the whole range is missed.
InRangeNoContainment(event, start_date, end_date) ==
    \/ start_date.t <= as_utc(event.start).t /\ as_utc(event.start).t <= end_date.t
    \/ start_date.t <= as_utc(event.end).t /\ as_utc(event.end).t <= end_date.t

\* The condition of the list comprehension of async_get_events.
InRange(event, start_date, end_date) ==
    \/ start_date.t <= as_utc(event.start).t /\ as_utc(event.start).t <= end_date.t
    \/ start_date.t <= as_utc(event.end).t /\ as_utc(event.end).t <= end_date.t
    \/ as_utc(event.start).t <= start_date.t /\ end_date.t <= as_utc(event.end).t

\* [event for event in self._events if ...]
RECURSIVE RangeFilter(_, _, _)
RangeFilter(events, start_date, end_date) ==
    IF events = <<>>
    THEN <<>>
    ELSE IF InRange(Head(events), start_date, end_date)
    THEN <<Head(events)>> \o RangeFilter(Tail(events), start_date, end_date)
    ELSE RangeFilter(Tail(events), start_date, end_date)

\* ------------------------------------------------- next-event selector

NoEvent == CalendarEvent("", Naive(0), Naive(0))

\* min(future_events, key=lambda x: x.start): the first event of least start.
RECURSIVE MinByStart(_)
MinByStart(events) ==
    IF Len(events) = 1
    THEN events[1]
    ELSE LET rest == MinByStart(Tail(events))
         IN  IF events[1].start.t <= rest.start.t THEN events[1] ELSE rest

\* `now` as _get_next_event takes it.
NowOf(v, t) ==
    IF v = "min_renovasjon_test" THEN as_utc(datetime_now(t)) ELSE datetime_now(t)

\* FutureEvents with `>` for `>=`: an event starting right now is dropped.
RECURSIVE FutureEventsStrict(_, _)
FutureEventsStrict(events, now_dt) ==
    IF events = <<>>
    THEN <<>>
    ELSE IF Head(events).start.t > now_dt.t
    THEN <<Head(events)>> \o FutureEventsStrict(Tail(events), now_dt)
    ELSE FutureEventsStrict(Tail(events), now_dt)

\* [event for event in self._events if event.start >= now]
RECURSIVE FutureEvents(_, _)
FutureEvents(events, now_dt) ==
    IF events = <<>>
    THEN <<>>
    ELSE IF Head(events).start.t >= now_dt.t
    THEN <<Head(events)>> \o FutureEvents(Tail(events), now_dt)
    ELSE FutureEvents(Tail(events), now_dt)

\* Python refuses to order a naive datetime against an aware one.
Comparable(a, b) == (a.tz = "naive") <=> (b.tz = "naive")

\* _get_next_event at instant t: whether it raises, whether it finds an event
\* (None otherwise), and the event.
_get_next_event(v, events, t) ==
    LET future_events == FutureEvents(events, NowOf(v, t))
    IN  IF \E i \in 1..Len(events) : ~Comparable(events[i].start, NowOf(v, t))
        THEN [raised |-> v # "min_renovasjon_test", found |-> FALSE, event |-> NoEvent]
        ELSE IF future_events = <<>>
        THEN [raised |-> FALSE, found |-> FALSE, event |-> NoEvent]
        ELSE [raised |-> FALSE, found |-> TRUE, event |-> MinByStart(future_events)]

\* ----------------------------------------------- the entity's handlers

\* async_update extending the cached list by what it fetched.
async_update_merging(v, cache, response, t) ==
    [raised |-> _fetch_events(v, response, t).raised,
     events |-> cache \o _fetch_events(v, response, t).events]

\* async_update after the await: whether it raises, and the cached list it
\* leaves, given the list `cache` it found.
async_update(v, cache, response, t) ==
    LET r == _fetch_events(v, response, t)
    IN  IF ~r.raised
        THEN [raised |-> FALSE, events |-> r.events]
        ELSE IF v = "min_renovasjon_test"
        THEN [raised |-> FALSE, events |-> <<>>]
        ELSE [raised |-> TRUE, events |-> cache]

\* async_get_events filtering the list it found cached, not the one it fetched.
async_get_events_stale(v, cache, response, t, start_date, end_date) ==
    [raised |-> _fetch_events(v, response, t).raised,
     events |-> _fetch_events(v, response, t).events,
     ret |-> RangeFilter(cache, start_date, end_date)]

\* async_get_events after the await: whether it raises, the cached list it
\* leaves, and the list it returns.
async_get_events(v, cache, response, t, start_date, end_date) ==
    LET r == _fetch_events(v, response, t)
    IN  IF ~r.raised
        THEN [raised |-> FALSE, events |-> r.events,
              ret |-> RangeFilter(r.events, start_date, end_date)]
        ELSE [raised |-> v # "min_renovasjon_test", events |-> cache, ret |-> <<>>]

\* ------------------------------------------------------------- state

VARIABLES
    variant,     \* which package's entity runs
    now,         \* the UTC instant the host clock shows
    _events,     \* self._events, the cached event list
    pending,     \* the calls suspended at `await get_calendar_list()`, a bag
    last,        \* the call that completed most recently, with what it was
                 \* given and what it gave back
    next_event   \* what the `event` property gave the host when read in this
                 \* state; Unread once a call or the clock has moved on

vars == <<variant, now, _events, pending, last, next_event>>

\* The instants the clock takes: in the day before the first pickup day, at
\* local midnight of the first pickup day, at its noon, and in the last day.
ClockInstants ==
    {LocalMidnight(1) - 5, LocalMidnight(1), LocalMidnight(1) + 12,
     LocalMidnight(MaxDay) + 12}

\* The [start_date, end_date) ranges the host asks for, in local time: inside
\* the first pickup day, before it with a gap, before it and ending at its
\* midnight, inside the last pickup day from its midnight on, around all days.
QueryRanges ==
    {<<Aware("local", LocalMidnight(1) + 6), Aware("local", LocalMidnight(1) + 18)>>,
     <<Aware("local", LocalMidnight(1) - 12), Aware("local", LocalMidnight(1) - 6)>>,
     <<Aware("local", LocalMidnight(1) - 12), Aware("local", LocalMidnight(1))>>,
     <<Aware("local", LocalMidnight(MaxDay)), Aware("local", LocalMidnight(MaxDay) + 6)>>,
     <<Aware("local", LocalMidnight(1) - 12), Aware("local", LocalMidnight(MaxDay + 1) + 6)>>}

\* The answers of get_calendar_list() the entity meets in Spec.
Feed ==
    {UpstreamException, UpstreamNone, UpstreamList(<<>>),
     UpstreamList(<<Entry("Plastic", PickupAt(1, 7), PickupAt(MaxDay, 7))>>),
     UpstreamList(<<Entry("Paper", PickupAt(MaxDay, 7), PickupAt(1, 7)), NullEntry>>),
     UpstreamList(<<Entry("Plastic", PickupAt(MaxDay, 7), NoDate), BadArityEntry,
                    Entry("Paper", PickupAt(1, 7), PickupAt(MaxDay, 7))>>),
     UpstreamList(<<Entry("Paper", PickupAt(MaxDay, 7), NoDate),
                    Entry("Plastic", PickupAt(1, 7), BadDate)>>)}

\* The pickup lists _fetch_events is given in SpecFetch.
PickupLists ==
    UNION {[1..n -> PickupEntries] : n \in 0..MaxLen}

PickupResponses ==
    {UpstreamException, UpstreamNone} \cup {UpstreamList(l) : l \in PickupLists}

Epoch == Aware("utc", 0)

UpdateRequest == [kind |-> "async_update", start_date |-> Epoch, end_date |-> Epoch]

GetEventsRequest(start_date, end_date) ==
    [kind |-> "async_get_events", start_date |-> start_date, end_date |-> end_date]

NoCall ==
    [kind |-> "none", outcome |-> "returned", response |-> UpstreamNone, at |-> 0,
     start_date |-> Epoch, end_date |-> Epoch, ret |-> <<>>]

Completed(request, outcome, response, t, ret) ==
    [kind |-> request.kind, outcome |-> outcome, response |-> response, at |-> t,
     start_date |-> request.start_date, end_date |-> request.end_date, ret |-> ret]

Unread == [state |-> "unread", found |-> FALSE, event |-> NoEvent]

Init ==
    /\ variant \in Variants
    /\ now \in ClockInstants
    /\ _events = <<>>
    /\ pending = EmptyBag
    /\ last = NoCall
    /\ next_event = Unread

\* ----------------------------------------------------------- actions

\* The host calls async_update: it runs to the await in _fetch_events.
AsyncUpdateCall ==
    /\ BagCardinality(pending) < MaxCalls
    /\ pending' = pending (+) SetToBag({UpdateRequest})
    /\ next_event' = Unread
    /\ UNCHANGED <<variant, now, _events, last>>

\* The host calls async_get_events: start_date and end_date are converted to
\* UTC, then it runs to the await in _fetch_events.
AsyncGetEventsCall ==
    /\ BagCardinality(pending) < MaxCalls
    /\ \E range \in QueryRanges :
        /\ pending' = pending (+) SetToBag({GetEventsRequest(as_utc(range[1]),
                                                             as_utc(range[2]))})
        /\ next_event' = Unread
        /\ UNCHANGED <<variant, now, _events, last>>

\* get_calendar_list() answers a suspended async_update, which runs to its end.
AsyncUpdateResume ==
    /\ BagIn(UpdateRequest, pending)
    /\ \E response \in Feed :
        \E r \in {async_update(variant, _events, response, now)} :
            /\ pending' = pending (-) SetToBag({UpdateRequest})
            /\ _events' = r.events
            /\ last' = Completed(UpdateRequest,
                                 IF r.raised THEN "raised" ELSE "returned",
                                 response, now, <<>>)
            /\ next_event' = Unread
            /\ UNCHANGED <<variant, now>>

\* get_calendar_list() answers a suspended async_get_events, which runs to
\* its end.
AsyncGetEventsResume ==
    \E request \in {q \in BagToSet(pending) : q.kind = "async_get_events"},
       response \in Feed :
        \E r \in {async_get_events(variant, _events, response, now,
                                   request.start_date, request.end_date)} :
            /\ pending' = pending (-) SetToBag({request})
            /\ _events' = r.events
            /\ last' = Completed(request, IF r.raised THEN "raised" ELSE "returned",
                                 response, now, r.ret)
            /\ next_event' = Unread
            /\ UNCHANGED <<variant, now>>

\* The host reads the `event` property.
EventProperty ==
    \E r \in {_get_next_event(variant, _events, now)} :
        /\ next_event' = [state |-> IF r.raised THEN "raised" ELSE "returned",
                          found |-> r.found, event |-> r.event]
        /\ UNCHANGED <<variant, now, _events, pending, last>>

\* The clock moves on to its next instant.
Tick ==
    /\ \E t \in ClockInstants :
           /\ t > now
           /\ \A u \in ClockInstants : u > now => t <= u
           /\ now' = t
    /\ next_event' = Unread
    /\ UNCHANGED <<variant, _events, pending, last>>

Next ==
    \/ AsyncUpdateCall
    \/ AsyncGetEventsCall
    \/ AsyncUpdateResume
    \/ AsyncGetEventsResume
    \/ EventProperty
    \/ Tick

Spec == Init /\ [][Next]_vars

\* _fetch_events alone, applied once to a pickup list drawn from PickupResponses.
FetchEventsCall ==
    /\ last = NoCall
    /\ \E response \in PickupResponses :
           \E r \in {_fetch_events(variant, response, now)} :
               last' = [NoCall EXCEPT !.kind = "_fetch_events",
                                      !.outcome = IF r.raised THEN "raised" ELSE "returned",
                                      !.response = response,
                                      !.at = now,
                                      !.ret = r.events]
    /\ UNCHANGED <<variant, now, _events, pending, next_event>>

NextFetch == FetchEventsCall

SpecFetch == Init /\ [][NextFetch]_vars

\* ---------------------------------------------------------- properties

\* The local calendar date at UTC instant t.
LocalDate(t) == (t + UtcOffsetAtUtc(t)) \div HoursPerDay

\* The UTC instant a datetime stands for.
Instant(dt) == IF dt.tz = "naive" THEN dt.t - UtcOffsetAtWall(dt.t) ELSE dt.t

\* What the call recorded in `last` was given, rebuilt from its inputs.
Fresh == _fetch_events(variant, last.response, last.at)

Fetched == last.kind = "_fetch_events"

IsSorted(events) ==
    \A i, j \in 1..Len(events) :
        i < j => Instant(events[i].start) <= Instant(events[j].start)

\* a is b with some elements left out, the order kept.
RECURSIVE IsSubSeq(_, _)
IsSubSeq(a, b) ==
    IF a = <<>>
    THEN TRUE
    ELSE IF b = <<>>
    THEN FALSE
    ELSE IF Head(a) = Head(b)
    THEN IsSubSeq(Tail(a), Tail(b))
    ELSE IsSubSeq(a, Tail(b))

Malformed(entry) ==
    \/ entry.kind = "bad_arity"
    \/ entry.kind = "tuple"
       /\ (entry.pickup_date.kind = "bad_type" \/ entry.next_pickup_date.kind = "bad_type")

WellFormed(entry) == entry.kind = "tuple" /\ ~Malformed(entry)

\* The date fields of a pickup list that are present and not before the local
\* date at instant t, counted over the well-formed entries of the list.
PresentAndDue(field, t) == field.kind = "datetime" /\ date(field.dt) >= LocalDate(t)

RECURSIVE DueFields(_, _)
DueFields(entries, t) ==
    IF entries = <<>>
    THEN 0
    ELSE DueFields(Tail(entries), t)
         + (IF WellFormed(Head(entries)) /\ PresentAndDue(Head(entries).pickup_date, t)
            THEN 1 ELSE 0)
         + (IF WellFormed(Head(entries))
               /\ PresentAndDue(Head(entries).next_pickup_date, t)
            THEN 1 ELSE 0)

\* C1: _fetch_events builds one event for every date field that is present and
\* not before today's local date, and none for any other field, so the number
\* of events it returns is the number of such fields over the list's entries.
C1_OneEventPerDueField ==
    Fetched /\ last.response.kind = "list"
        => Len(last.ret) = DueFields(last.response.entries, last.at)

\* An event is the local day of date field `field` of a fraction called `name`,
\* in UTC.
IsLocalDayEvent(event, name, field) ==
    /\ field.kind = "datetime"
    /\ event.start = Aware("utc", LocalMidnight(date(field.dt)))
    /\ event.end = Aware("utc", LocalMidnight(date(field.dt) + 1))
    /\ event.summary = <<name, " tømming">>
    /\ event.description = <<"Tømming av ", name>>

\* C2: every event _fetch_events produces starts at local midnight of the pickup
\* date of one of the entries and ends at local midnight of the following day,
\* both in UTC, and carries the summary and description of that entry's
\* fraction name.
C2_LocalDayInUtc ==
    Fetched =>
        \A i \in 1..Len(last.ret) :
            \E k \in 1..Len(last.response.entries) :
                LET entry == last.response.entries[k]
                IN  /\ entry.kind = "tuple"
                    /\ \/ IsLocalDayEvent(last.ret[i], entry.fraction_name, entry.pickup_date)
                       \/ IsLocalDayEvent(last.ret[i], entry.fraction_name,
                                          entry.next_pickup_date)

\* An event and the range [start_date, end_date) share an instant.
SharesInstant(event, start_date, end_date) ==
    Instant(event.start) < end_date.t /\ start_date.t < Instant(event.end)

SharesInstantClosed(event, start_date, end_date) ==
    Instant(event.start) <= end_date.t /\ start_date.t <= Instant(event.end)

NotStarted == {i \in 1..Len(_events) : Instant(_events[i].start) >= now}

\* C4: the event property gives a cached event that starts at or after now and
\* no later than any other such event, and gives None exactly when no cached
\* event starts at or after now.
C4_NextEvent ==
    next_event.state # "unread"
        => /\ next_event.state = "returned"
           /\ next_event.found <=> NotStarted # {}
           /\ next_event.found
                  => \E i \in NotStarted :
                         /\ _events[i] = next_event.event
                         /\ \A j \in NotStarted :
                                Instant(_events[i].start) <= Instant(_events[j].start)

\* The property was read at an instant at which one cached event had started
\* and two had not, and gave an event.
C4_Witness ==
    /\ next_event.state = "returned"
    /\ next_event.found
    /\ Cardinality(NotStarted) >= 2
    /\ \E i \in 1..Len(_events) : i \notin NotStarted

\* C5: no exception leaves async_update, async_get_events or the event
\* property.
C5_NoExceptionPropagates ==
    last.outcome # "raised" /\ next_event.state # "raised"

\* C6: _fetch_events returns, for a list with malformed entries, the events it
\* returns for the list with those entries removed.
C6_MalformedSkipped ==
    Fetched /\ last.response.kind = "list"
        => /\ last.outcome = "returned"
           /\ last.ret =
                  _fetch_events(variant,
                                UpstreamList(SelectSeq(last.response.entries,
                                                       LAMBDA entry : ~Malformed(entry))),
                                last.at).events

\* C7: the cached list, and the list a call returned, are sorted by start.
C7_Sorted ==
    IsSorted(_events) /\ IsSorted(last.ret)

\* A fetch met two dates in descending order, and async_get_events returned
\* both events.
C7_Witness ==
    /\ last.kind = "async_get_events"
    /\ last.response.kind = "list"
    /\ Len(last.response.entries) >= 1
    /\ last.response.entries[1].kind = "tuple"
    /\ last.response.entries[1].pickup_date = PickupAt(MaxDay, 7)
    /\ Len(last.ret) >= 2
    /\ Len(_events) >= 2
    /\ Instant(_events[1].start) < Instant(_events[2].start)

\* C8: _fetch_events gives for a list with None entries what it gives for the
\* list without them, and gives no events for an empty list or None.
C8_NullSkipped ==
    Fetched /\ last.response.kind # "exception"
        => /\ [raised |-> last.outcome = "raised", events |-> last.ret] =
                  _fetch_events(variant,
                                UpstreamList(SelectSeq(last.response.entries,
                                                       LAMBDA entry : entry.kind # "null")),
                                last.at)
           /\ last.response.entries = <<>> => last.outcome = "returned" /\ last.ret = <<>>

\* A list with a None entry ahead of an entry that gave an event.
C8_Witness ==
    /\ Fetched
    /\ last.response.kind = "list"
    /\ Len(last.response.entries) >= 2
    /\ last.response.entries[1].kind = "null"
    /\ Len(last.ret) >= 1

C10_FiltersOwnFetch ==
    last.kind = "async_get_events" /\ last.outcome = "returned"
        => IsSubSeq(last.ret, Fresh.events) /\ _events = Fresh.events

\* async_get_events returned part of what it fetched while another call was
\* suspended.
C10_Witness ==
    /\ last.kind = "async_get_events"
    /\ last.outcome = "returned"
    /\ BagCardinality(pending) >= 1
    /\ last.ret # <<>>
    /\ Len(last.ret) < Len(_events)

====
